---- MODULE Spec2Model ----
(***************************************************************************)
(* A model of rutil/auto_roll_logger.cc: the self-rotating log sink        *)
(* AutoRollLogger (Logv, LogHeader, RollLogFile, ResetLogger, LogExpired,  *)
(* WriteHeaderInfo), the filename policy and the factory CreateLogger,     *)
(* running against an Env (filesystem + clock) whose calls may fail.       *)
(***************************************************************************)
EXTENDS Integers, Sequences, FiniteSets, TLC

(* ---------------------------- bounds ----------------------------------- *)
\* API calls (Log and LogHeader together) started on the sink
MaxCalls == 3
\* steps the clock may advance (each by a microsecond or by a second)
MaxTicks == 1
\* Env calls that may report a failure
MaxFaults == 1

(* ------------------------ program constants ---------------------------- *)
MAXBUFFERSIZE == 1024
\* the amortization constant N of LogExpired (set in the class declaration)
call_NowMicros_every_N_records_ == 2
\* Logger::kDoNotSupportGetLogFileSize, the largest size value
kDoNotSupportGetLogFileSize == 2147483647
\* NowMicros() * 1e-6
MicrosPerSecond == 1000000

Threads == {1, 2}
\* Threads are interchangeable while idle: a call that starts when every
\* thread is idle is taken to be thread 1's
MayStart(t, p) == t = 1 \/ p[1] # "idle"
\* nullptr: the value of an empty shared_ptr<Logger>
NULL == 0
LogPath == "dir"
\* the size thresholds and age thresholds CreateLogger is called with
SizeThresholds == {0, 2}
AgeThresholds == {0, 1}
\* the lengths of the formatted texts of Log and LogHeader calls
MsgLens == {1}
HeaderLens == {1, 1030}
\* the minimum level CreateLogger is asked for, and the one a new Logger has
LogLevels == {"ERROR_LEVEL"}
DefaultLevel == "INFO_LEVEL"

(* -------------------------- filename policy ---------------------------- *)
\* snprintf(buf, sizeof(buf), "%llu", ts): the decimal digits of ts
RECURSIVE Decimal(_)
Decimal(n) == IF n < 10 THEN <<n>> ELSE Append(Decimal(n \div 10), n % 10)

InfoLogFileName(log_path) == <<log_path, "/LOG">>

OldInfoLogFileName(log_path, ts) == <<log_path, "/LOG.old.", Decimal(ts)>>

(* ------------------------------ helpers -------------------------------- *)
Min(a, b) == IF a < b THEN a ELSE b

RECURSIVE Bytes(_)
\* the bytes a sequence of written texts occupies
Bytes(s) == IF s = <<>> THEN 0 ELSE s[1].len + Bytes(Tail(s))

IsPrefix(p, s) == Len(p) <= Len(s) /\ SubSeq(s, 1, Len(p)) = p

\* vsnprintf(buffer, MAXBUFFERSIZE, ...): at most MAXBUFFERSIZE - 1 characters
ValistToString(text) == [text EXCEPT !.len = Min(text.len, MAXBUFFERSIZE - 1)]

(* ---------------------------- Env: files ------------------------------- *)
\* a directory is a set of [name, file] bindings
FileExists(d, name) == \E e \in d : e.name = name

\* the file bound to an existing name
FileAt(d, name) == (CHOOSE e \in d : e.name = name).file

\* the directory after a successful rename of src to dst
Renamed(d, src, dst) ==
    {e \in d : e.name # src /\ e.name # dst} \cup {[name |-> dst, file |-> FileAt(d, src)]}

\* RenameFile(src, dst) succeeds only on an existing src and without a fault
RenameOk(d, src, fault) == FileExists(d, src) /\ ~fault

RenameFile(d, src, dst, fault) ==
    IF RenameOk(d, src, fault) THEN Renamed(d, src, dst) ELSE d

\* NewLogger(fname, &result) succeeds only in an existing directory
NewLoggerOk(dirThere, fault) == dirThere /\ ~fault

\* the directory after NewLogger created a fresh empty file f at fname
Opened(d, fname, f) == {e \in d : e.name # fname} \cup {[name |-> fname, file |-> f]}

(* ------------------------ shared_ptr<Logger> --------------------------- *)
\* use counts after one owner of handle h lets go of it
Unref(r, h) == IF h = NULL THEN r ELSE [r EXCEPT ![h] = @ - 1]

\* the handles destroyed (file closed) once h has no owner left
Destroyed(c, r, h) == IF h # NULL /\ r[h] <= 0 THEN c \cup {h} ELSE c

VARIABLES
    now,            \* Env::NowMicros()
    dirExists,      \* the log directory exists
    dir,            \* the files of the log directory: [name, file] bindings
    content,        \* content[f]: the texts written to file f, in order
    faults,         \* Env calls that have failed so far
    noSize,         \* handles whose GetLogFileSize() is not supported
    refs,           \* refs[h]: use count of the shared_ptr<Logger> of handle h
    closed,         \* handles destroyed
    sink,           \* "none", "live" (constructed) or "deleted"
    logger_, status_, kMaxLogFileSize, kLogFileTimeToRoll,
    cached_now, ctime_, cached_now_access_count, headers_,
    mutex_,         \* the set of threads holding mutex_ (at most one)
    failedAt,       \* history: calls started when a roll last failed, 0 if none
    callerLogger,   \* the caller's std::shared_ptr<Logger>* logger of CreateLogger
    level,          \* the minimum level of the Logger the caller's handle names
    ret,            \* what CreateLogger returned, "none" before the call
    dirStatus,      \* what CreateDirIfMissing returned to CreateLogger (line 152)
    pc,             \* each thread's position
    logger,         \* Logv's local shared_ptr<Logger> logger of each thread
    text,           \* the formatted text of each thread's call
    crashed,        \* "no", or how the process died
    build,          \* "debug", "release" (NDEBUG: assert() compiled away), or
                    \* "unobserved" while no assert() has had to tell them apart
    calls           \* API calls started so far

envVars == <<now, dirExists, dir, content, faults, noSize, refs, closed>>
sinkVars == <<sink, logger_, status_, kMaxLogFileSize, kLogFileTimeToRoll,
              cached_now, ctime_, cached_now_access_count, headers_, mutex_,
              failedAt>>
callerVars == <<callerLogger, level, ret, dirStatus>>
threadVars == <<pc, logger, text, crashed, build, calls>>
vars == <<envVars, sinkVars, callerVars, threadVars>>

log_fname_ == InfoLogFileName(LogPath)

\* Logger::GetLogFileSize() of handle h
GetLogFileSize(h) == IF h \in noSize THEN kDoNotSupportGetLogFileSize
                     ELSE Bytes(content[h])

\* static_cast<uint64_t>(env_->NowMicros() * 1e-6)
NowSeconds(micros) == micros \div MicrosPerSecond

OldContent == <<[kind |-> "old", id |-> 0, len |-> 1]>>

\* what a file archived by an earlier run of the program holds
ArchivedContent == <<[kind |-> "old", id |-> 0, len |-> 2]>>

\* the directories the program may find: none, an empty one, one with an
\* active LOG (file 1), and one where an earlier roll in the microsecond of
\* the start has also left an archived file (file 2)
StartDirs(micros) ==
    { [exists |-> FALSE, files |-> {}, content |-> <<OldContent>>],
      [exists |-> TRUE, files |-> {}, content |-> <<OldContent>>],
      [exists |-> TRUE, files |-> {[name |-> log_fname_, file |-> 1]},
       content |-> <<OldContent>>],
      [exists |-> TRUE,
       files |-> {[name |-> log_fname_, file |-> 1],
                  [name |-> OldInfoLogFileName(LogPath, micros), file |-> 2]},
       content |-> <<OldContent, ArchivedContent>>] }

NoText == [kind |-> "none", id |-> 0, len |-> 0]

\* the number of TRUE among a tuple of fault flags
RECURSIVE CountTrue(_)
CountTrue(fs) == IF fs = <<>> THEN 0
                 ELSE (IF fs[1] THEN 1 ELSE 0) + CountTrue(Tail(fs))

\* the Env may still fail the calls flagged in fs
MayFail(fs) == faults + CountTrue(fs) <= MaxFaults

Init ==
    /\ now = 9
    /\ \E start \in StartDirs(9) :
          /\ dirExists = start.exists
          /\ dir = start.files
          /\ content = start.content
          /\ refs = [f \in DOMAIN start.content |-> 0]
    /\ faults = 0
    /\ noSize = {}
    /\ closed = {}
    /\ sink = "none"
    /\ logger_ = NULL
    /\ status_ = "OK"
    /\ kMaxLogFileSize = 0
    /\ kLogFileTimeToRoll = 0
    /\ cached_now = 0
    /\ ctime_ = 0
    /\ cached_now_access_count = 0
    /\ headers_ = <<>>
    /\ mutex_ = {}
    /\ failedAt = 0
    /\ dirStatus = "none"
    /\ callerLogger = [sink |-> FALSE, h |-> NULL]
    /\ level = DefaultLevel
    /\ ret = "none"
    /\ pc = [t \in Threads |-> "idle"]
    /\ logger = [t \in Threads |-> NULL]
    /\ text = [t \in Threads |-> NoText]
    /\ crashed = "no"
    /\ build = "unobserved"
    /\ calls = 0

(* ------------------------------ clock ---------------------------------- *)
\* how many steps the clock has advanced since the start
Ticked == ((now % MicrosPerSecond) - 9) + (now \div MicrosPerSecond)

TickMicro ==
    /\ crashed = "no"
    /\ Ticked < MaxTicks
    /\ now' = now + 1
    /\ UNCHANGED <<dirExists, dir, content, faults, noSize, refs, closed,
                   sinkVars, callerVars, threadVars>>

TickSecond ==
    /\ crashed = "no"
    /\ Ticked < MaxTicks
    /\ now' = now + MicrosPerSecond
    /\ UNCHANGED <<dirExists, dir, content, faults, noSize, refs, closed,
                   sinkVars, callerVars, threadVars>>

(* ---------------------------- ResetLogger ------------------------------ *)
\* status_ as ResetLogger leaves it: the open's error, NotSupported when the
\* new writer cannot report its size, OK otherwise
ResetStatus(openOk, sizeKnown) ==
    IF ~openOk THEN "IOError"
    ELSE IF ~sizeKnown THEN "NotSupported"
    ELSE "OK"

(* ---------------------------- CreateLogger ----------------------------- *)
\* line 159: the new sink is deleted when its status is an error
Deletes(s) == s # "OK"

\* CreateLogger handing the sink over whatever its status
HandsOver_Always(s) == TRUE

\* line 162: the sink is handed to the caller (logger->reset(result))
HandsOver(s) == s = "OK"

\* the rotating branch: new AutoRollLogger(...), whose constructor sets the
\* fields and runs ResetLogger; then lines 158-164
CreateRotating(log_max_size, log_file_time_to_roll, lvl, dirThere, fo, fs) ==
    LET openOk == NewLoggerOk(dirThere, fo)
        h == Len(refs) + 1
        s == ResetStatus(openOk, ~fs)
    IN  /\ kMaxLogFileSize' = log_max_size
        /\ kLogFileTimeToRoll' = log_file_time_to_roll
        /\ cached_now' = NowSeconds(now)
        /\ ctime_' = NowSeconds(now)
        /\ cached_now_access_count' = 0
        /\ status_' = s
        /\ ret' = s
        /\ IF openOk
           THEN /\ dir' = Opened(dir, log_fname_, h)
                /\ content' = Append(content, <<>>)
                /\ noSize' = IF fs THEN noSize \cup {h} ELSE noSize
                /\ refs' = Append(refs, IF Deletes(s) THEN 0 ELSE 1)
                /\ closed' = IF Deletes(s) THEN closed \cup {h} ELSE closed
                /\ logger_' = h
           ELSE /\ logger_' = NULL
                /\ UNCHANGED <<dir, content, noSize, refs, closed>>
        /\ sink' = IF Deletes(s) THEN "deleted" ELSE "live"
        /\ callerLogger' = IF HandsOver(s) THEN [sink |-> TRUE, h |-> NULL]
                           ELSE callerLogger
        /\ level' = IF HandsOver(s) THEN lvl ELSE level
        /\ UNCHANGED <<headers_, mutex_, failedAt>>

\* the plain branch leaving the new Logger at its default level
PlainLevel_Default(h, lvl, old) == old

\* lines 170-172: SetInfoLogLevel when NewLogger left a logger in *logger
PlainLevel(h, lvl, old) == IF h # NULL THEN lvl ELSE old

\* the threshold-less branch, lines 165-174
CreatePlain(lvl, dirThere, fr, fo) ==
    LET archived == RenameFile(dir, log_fname_, OldInfoLogFileName(LogPath, now), fr)
        openOk == NewLoggerOk(dirThere, fo)
        h == IF openOk THEN Len(refs) + 1 ELSE NULL
    IN  /\ IF openOk
           THEN /\ dir' = Opened(archived, log_fname_, h)
                /\ content' = Append(content, <<>>)
                /\ refs' = Append(refs, 1)
           ELSE /\ dir' = archived
                /\ UNCHANGED <<content, refs>>
        /\ callerLogger' = [sink |-> FALSE, h |-> h]
        /\ level' = PlainLevel(h, lvl, level)
        /\ ret' = IF openOk THEN "OK" ELSE "IOError"
        /\ UNCHANGED <<noSize, closed, sinkVars>>

CreateLogger ==
    /\ ret = "none"
    /\ crashed = "no"
    /\ \E log_max_size \in SizeThresholds, log_file_time_to_roll \in AgeThresholds,
          lvl \in LogLevels, fm \in BOOLEAN, fr \in BOOLEAN, fo \in BOOLEAN,
          fs \in BOOLEAN :
        LET dirThere == IF fm THEN dirExists ELSE TRUE
            rotating == log_file_time_to_roll > 0 \/ log_max_size > 0
        IN  /\ MayFail(<<fm, fr, fo, fs>>)
            /\ rotating => ~fr
            /\ (~rotating \/ fo) => ~fs
            /\ dirExists' = dirThere
            /\ dirStatus' = IF fm THEN "IOError" ELSE "OK"
            /\ faults' = faults + CountTrue(<<fm, fr, fo, fs>>)
            /\ IF rotating
               THEN CreateRotating(log_max_size, log_file_time_to_roll, lvl,
                                   dirThere, fo, fs)
               ELSE CreatePlain(lvl, dirThere, fr, fo)
    /\ UNCHANGED <<now, threadVars>>

(* ------------------------------- Logv ---------------------------------- *)
\* line 80, assert(GetStatus().ok()): what the build makes of a failed assert
Builds == IF build = "unobserved" THEN {"debug", "release"} ELSE {build}

\* lines 79-82: a thread enters Logv with its formatted text
LogvEnter(t) ==
    /\ crashed = "no"
    /\ callerLogger.sink /\ sink = "live"
    /\ pc[t] = "idle"
    /\ MayStart(t, pc)
    /\ calls < MaxCalls
    /\ calls' = calls + 1
    /\ \E len \in MsgLens :
          text' = [text EXCEPT ![t] = [kind |-> "M", id |-> calls + 1, len |-> len]]
    /\ IF status_ = "OK"
       THEN /\ pc' = [pc EXCEPT ![t] = "lv_lock"]
            /\ UNCHANGED <<build, crashed>>
       ELSE \E b \in Builds :
            /\ build' = b
            /\ IF b = "debug"
               THEN crashed' = "assert" /\ UNCHANGED pc
               ELSE pc' = [pc EXCEPT ![t] = "lv_lock"] /\ UNCHANGED crashed
    /\ UNCHANGED <<envVars, sinkVars, callerVars, logger>>

\* a lock that lets a thread in while another holds it
MutexFree_Always(m) == TRUE

\* MutexLock l(&mutex_) gets past its constructor once no thread holds mutex_
MutexFree(m) == m = {}

\* line 84: MutexLock l(&mutex_)
LogvLock(t) ==
    /\ crashed = "no"
    /\ pc[t] = "lv_lock"
    /\ MutexFree(mutex_)
    /\ mutex_' = {t}
    /\ pc' = [pc EXCEPT ![t] = "lv_locked"]
    /\ UNCHANGED <<envVars, sink, logger_, status_, kMaxLogFileSize,
                   kLogFileTimeToRoll, cached_now, ctime_,
                   cached_now_access_count, headers_, failedAt, callerVars,
                   logger, text, crashed, build, calls>>

(* ----------------------------- LogExpired ------------------------------ *)
\* LogExpired re-reading the clock one call late
Refreshes_Late(count) == count > call_NowMicros_every_N_records_

\* line 134: LogExpired re-reads the clock
Refreshes(count) == count >= call_NowMicros_every_N_records_

\* lines 134-137: cached_now after LogExpired
CachedNowAfter(cn, count, micros) ==
    IF Refreshes(count) THEN NowSeconds(micros) ELSE cn

\* LogExpired forgetting to restart the count when it re-reads the clock
AccessCountAfter_NoRestart(count) == count + 1

\* lines 134-139: cached_now_access_count after LogExpired
AccessCountAfter(count) == (IF Refreshes(count) THEN 0 ELSE count) + 1

\* line 140: cached_now >= ctime_ + kLogFileTimeToRoll
Expired(cn, ct, ttl) == cn >= ct + ttl

\* the age trigger evaluated whatever the threshold
AgeTrigger_Unguarded(ttl, cn, count, ct, micros) ==
    Expired(CachedNowAfter(cn, count, micros), ct, ttl)

\* line 85: kLogFileTimeToRoll > 0 && LogExpired()
AgeTrigger(ttl, cn, count, ct, micros) ==
    ttl > 0 /\ Expired(CachedNowAfter(cn, count, micros), ct, ttl)

\* the size trigger firing only once the file is over the threshold
SizeTrigger_Over(max, size) == max > 0 /\ size > max

\* line 86: kMaxLogFileSize > 0 && logger_->GetLogFileSize() >= kMaxLogFileSize
SizeTrigger(max, size) == max > 0 /\ size >= max

(* ---------------------------- RollLogFile ------------------------------ *)
\* RollLogFile without the retry loop: the clock's reading as it is
FreeTimestamp_NoRetry(d, ts) == ts

RECURSIVE FreeTimestamp(_, _)
\* lines 49-53: the first timestamp from ts on whose archived name is free
FreeTimestamp(d, ts) ==
    IF FileExists(d, OldInfoLogFileName(LogPath, ts))
    THEN FreeTimestamp(d, ts + 1)
    ELSE ts

\* lines 47-53: the archived name RollLogFile picks
RollName(d, micros) == OldInfoLogFileName(LogPath, FreeTimestamp(d, micros))

\* lines 47-54: the directory after RollLogFile
RollLogFile(d, micros, fault) ==
    RenameFile(d, log_fname_, RollName(d, micros), fault)

RECURSIVE Reverse(_)
Reverse(q) == IF q = <<>> THEN <<>> ELSE Append(Reverse(Tail(q)), Head(q))

\* WriteHeaderInfo walking headers_ from its end
WriteHeaderInfo_Backwards(hs) == Reverse(hs)

\* WriteHeaderInfo logging every header twice
WriteHeaderInfo_Twice(hs) == hs \o hs

\* lines 110-115: the texts WriteHeaderInfo sends to logger_, in order
WriteHeaderInfo(hs) == hs

\* a pin that copies the raw pointer and takes no share in the handle
Pinned_RawPointer(r, h) == r

\* line 98: use counts after the copy logger = logger_
Pinned(r, h) == IF h = NULL THEN r ELSE [r EXCEPT ![h] = @ + 1]

\* lines 98-99 without a roll: pin logger_, leave the critical section
LogvPin(t) ==
    /\ logger' = [logger EXCEPT ![t] = logger_]
    /\ refs' = Pinned(refs, logger_)
    /\ mutex_' = {}
    /\ pc' = [pc EXCEPT ![t] = "lv_write"]
    /\ UNCHANGED <<dir, content, faults, noSize, closed, logger_, status_,
                   ctime_, failedAt, text, crashed>>

\* ResetLogger starting a new epoch whatever its status
EpochAfterReset_Unconditional(s, ct, micros) == NowSeconds(micros)

\* lines 34-36: ctime_ after ResetLogger has set status_ to s
EpochAfterReset(s, ct, micros) == IF s = "OK" THEN NowSeconds(micros) ELSE ct

\* lines 87-99: RollLogFile, ResetLogger and, when that went well,
\* WriteHeaderInfo and the pin; cn and cnt are what LogExpired left
LogvRollOver(t, cn, cnt, fr, fo, fs, resets) ==
    LET rolled == RollLogFile(dir, now, fr)
        openOk == NewLoggerOk(dirExists, fo)
        h == Len(refs) + 1
        s == ResetStatus(openOk, ~fs)
        dropped == IF openOk \/ resets THEN logger_ ELSE NULL
        r == Unref(refs, dropped)
    IN  /\ faults' = faults + CountTrue(<<fr, fo, fs>>)
        /\ status_' = s
        /\ closed' = Destroyed(closed, r, dropped)
        /\ mutex_' = {}
        /\ ctime_' = EpochAfterReset(s, ctime_, now)
        /\ UNCHANGED crashed
        /\ IF openOk
           THEN /\ dir' = Opened(rolled, log_fname_, h)
                /\ noSize' = IF fs THEN noSize \cup {h} ELSE noSize
                /\ logger_' = h
           ELSE /\ dir' = rolled
                /\ logger_' = IF resets THEN NULL ELSE logger_
                /\ UNCHANGED noSize
        /\ IF s = "OK"
           THEN /\ cached_now' = NowSeconds(now)
                /\ cached_now_access_count' = 0
                /\ content' = Append(content, WriteHeaderInfo(headers_))
                /\ refs' = Pinned(Append(r, 1), h)
                /\ logger' = [logger EXCEPT ![t] = h]
                /\ pc' = [pc EXCEPT ![t] = "lv_write"]
                /\ UNCHANGED <<text, failedAt>>
           ELSE /\ cached_now' = cn
                /\ failedAt' = calls
                /\ cached_now_access_count' = cnt
                /\ content' = IF openOk THEN Append(content, <<>>) ELSE content
                /\ refs' = IF openOk THEN Append(r, 1) ELSE r
                /\ pc' = [pc EXCEPT ![t] = "idle"]
                /\ text' = [text EXCEPT ![t] = NoText]
                /\ UNCHANGED logger

\* lines 85-99: the critical section of Logv, entered with mutex_ held
LogvBody(t) ==
    /\ crashed = "no"
    /\ pc[t] = "lv_locked"
    /\ LET ageOn == kLogFileTimeToRoll > 0
           cn == IF ageOn THEN CachedNowAfter(cached_now, cached_now_access_count, now)
                 ELSE cached_now
           cnt == IF ageOn THEN AccessCountAfter(cached_now_access_count)
                  ELSE cached_now_access_count
           expired == AgeTrigger(kLogFileTimeToRoll, cached_now,
                                 cached_now_access_count, ctime_, now)
           sizeRead == ~expired /\ kMaxLogFileSize > 0
       IN  IF sizeRead /\ logger_ = NULL
           THEN /\ crashed' = "null_deref"
                /\ cached_now' = cn
                /\ cached_now_access_count' = cnt
                /\ UNCHANGED <<dir, content, faults, noSize, refs, closed, logger_,
                               status_, ctime_, mutex_, failedAt, pc, logger, text>>
           ELSE IF expired \/ SizeTrigger(kMaxLogFileSize, GetLogFileSize(logger_))
           THEN \E fr \in BOOLEAN, fo \in BOOLEAN, fs \in BOOLEAN, resets \in BOOLEAN :
                  /\ MayFail(<<fr, fo, fs>>)
                  /\ fr => FileExists(dir, log_fname_)
                  /\ fs => NewLoggerOk(dirExists, fo)
                  /\ resets \/ ~NewLoggerOk(dirExists, fo)
                  /\ LogvRollOver(t, cn, cnt, fr, fo, fs, resets)
           ELSE /\ cached_now' = cn
                /\ cached_now_access_count' = cnt
                /\ LogvPin(t)
    /\ UNCHANGED <<now, dirExists, sink, kMaxLogFileSize, kLogFileTimeToRoll,
                   headers_, callerVars, build, calls>>

\* a write that goes through the sink's logger_ as it is by then
Dispatch_Current(pinned, current) == current

\* line 107, logger->Logv(format, ap): the write goes through the local copy
Dispatch(pinned, current) == pinned

\* lines 107-108: the write outside the mutex, then logger goes out of scope
LogvWrite(t) ==
    /\ crashed = "no"
    /\ pc[t] = "lv_write"
    /\ IF logger[t] = NULL
       THEN crashed' = "null_deref"
            /\ UNCHANGED <<content, refs, closed, logger, text, pc>>
       ELSE IF logger[t] \in closed
       THEN crashed' = "use_after_free"
            /\ UNCHANGED <<content, refs, closed, logger, text, pc>>
       ELSE LET r == Unref(refs, logger[t])
            IN  /\ content' = [content EXCEPT
                                   ![Dispatch(logger[t], logger_)] = Append(@, text[t])]
                /\ refs' = r
                /\ closed' = Destroyed(closed, r, logger[t])
                /\ logger' = [logger EXCEPT ![t] = NULL]
                /\ text' = [text EXCEPT ![t] = NoText]
                /\ pc' = [pc EXCEPT ![t] = "idle"]
                /\ UNCHANGED crashed
    /\ UNCHANGED <<now, dirExists, dir, faults, noSize, sinkVars, callerVars,
                   build, calls>>

(* ----------------------------- LogHeader ------------------------------- *)
\* lines 117-124
LogHeaderEnter(t) ==
    /\ crashed = "no"
    /\ callerLogger.sink /\ sink = "live"
    /\ pc[t] = "idle"
    /\ MayStart(t, pc)
    /\ calls < MaxCalls
    /\ calls' = calls + 1
    /\ \E len \in HeaderLens :
          text' = [text EXCEPT ![t] = [kind |-> "H", id |-> calls + 1, len |-> len]]
    /\ pc' = [pc EXCEPT ![t] = "lh_lock"]
    /\ UNCHANGED <<envVars, sinkVars, callerVars, logger, crashed, build>>

\* line 126
LogHeaderLock(t) ==
    /\ crashed = "no"
    /\ pc[t] = "lh_lock"
    /\ MutexFree(mutex_)
    /\ mutex_' = {t}
    /\ pc' = [pc EXCEPT ![t] = "lh_locked"]
    /\ UNCHANGED <<envVars, sink, logger_, status_, kMaxLogFileSize,
                   kLogFileTimeToRoll, cached_now, ctime_,
                   cached_now_access_count, headers_, failedAt, callerVars,
                   logger, text, crashed, build, calls>>

\* a LogHeader that retains its own header only
PushBack_Replacing(hs, data) == <<data>>

\* line 127: headers_.push_back(data)
PushBack(hs, data) == Append(hs, data)

\* lines 127-131
LogHeaderBody(t) ==
    /\ crashed = "no"
    /\ pc[t] = "lh_locked"
    /\ headers_' = PushBack(headers_, ValistToString(text[t]))
    /\ IF logger_ = NULL
       THEN crashed' = "null_deref" /\ UNCHANGED <<content, mutex_, pc, text>>
       ELSE /\ content' = [content EXCEPT ![logger_] = Append(@, text[t])]
            /\ mutex_' = {}
            /\ pc' = [pc EXCEPT ![t] = "idle"]
            /\ text' = [text EXCEPT ![t] = NoText]
            /\ UNCHANGED crashed
    /\ UNCHANGED <<now, dirExists, dir, faults, noSize, refs, closed, sink,
                   logger_, status_, kMaxLogFileSize, kLogFileTimeToRoll,
                   cached_now, ctime_, cached_now_access_count, failedAt,
                   callerVars, logger, build, calls>>

Next ==
    \/ CreateLogger
    \/ TickMicro
    \/ TickSecond
    \/ \E t \in Threads : LogvEnter(t)
    \/ \E t \in Threads : LogvLock(t)
    \/ \E t \in Threads : LogvBody(t)
    \/ \E t \in Threads : LogvWrite(t)
    \/ \E t \in Threads : LogHeaderEnter(t)
    \/ \E t \in Threads : LogHeaderLock(t)
    \/ \E t \in Threads : LogHeaderBody(t)

Spec == Init /\ [][Next]_vars

(* ======================= properties of the sink ======================== *)
\* thread t runs the critical section of Logv in this step and leaves it
Leaves(t) == pc[t] = "lv_locked" /\ pc'[t] # "lv_locked"

\* thread t leaves the critical section of Logv in this step having rolled
\* (RollLogFile and ResetLogger ran), whatever came of it
RollAttempt(t) == pc[t] = "lv_locked" /\ (pc'[t] = "idle" \/ logger_' # logger_)

\* ... and ResetLogger went well: a new writer is current and pinned
RollSuccess(t) == pc[t] = "lv_locked" /\ pc'[t] = "lv_write" /\ logger_' # logger_

\* thread t leaves the critical section of Logv in this step without a roll
NoRoll(t) == pc[t] = "lv_locked" /\ pc'[t] = "lv_write" /\ logger_' = logger_

\* the archived files of a directory
Archived(d) == {e \in d : e.name # log_fname_}

\* C1: a writer handle pinned by a Log call inside the critical section is
\* not destroyed before that call's write is done, also when another
\* thread's roll has replaced the current handle; a destroyed handle has no
\* holder left (neither the sink nor a thread about to write).
C1_PinnedHandleStaysOpen ==
    /\ \A t \in Threads :
          (pc[t] = "lv_write" /\ logger[t] # NULL) => logger[t] \notin closed
    /\ \A h \in closed :
          /\ sink = "live" => logger_ # h
          /\ \A t \in Threads : logger[t] # h

\* a thread is about to write to a handle that a roll has since replaced
C1_Witness ==
    \E t \in Threads :
       /\ pc[t] = "lv_write"
       /\ logger_ # NULL
       /\ logger[t] \notin {NULL, logger_}
       /\ status_ = "OK"

\* C2: a successful roll leaves in the new file exactly the retained headers,
\* in insertion order, before the mutex is released; files only grow at
\* their end, so no message of any thread comes before the last of them.
C2_HeadersFirstInNewFile ==
    [][ /\ \A t \in Threads :
             RollSuccess(t) => content'[logger_'] = headers_
        /\ \A f \in DOMAIN content : IsPrefix(content[f], content'[f])
      ]_vars

\* the file of a roll holds two replayed headers and then a message
C2_Witness ==
    /\ logger_ # NULL
    /\ Len(headers_) >= 2
    /\ Len(content[logger_]) > Len(headers_)
    /\ IsPrefix(headers_, content[logger_])
    /\ content[logger_][Len(headers_) + 1].kind = "M"
    /\ Cardinality(Archived(dir)) >= 1

\* C3 as stated: whatever headers are retained, the file a roll leaves
\* (after header replay, before the triggering message) is below the size
\* threshold.
C3_AsStated ==
    [][ \A t \in Threads :
          (RollSuccess(t) /\ kMaxLogFileSize > 0)
             => Bytes(content'[logger_']) < kMaxLogFileSize
      ]_vars

\* C3, amended: with the size trigger alone, a Log call rolls exactly when it
\* finds the current file at or over the threshold, at most one roll per
\* call; and when the retained headers together are smaller than the
\* threshold, the file the roll leaves is below the threshold.
C3_RollPerCrossing ==
    [][ \A t \in Threads :
          /\ (RollSuccess(t) /\ kMaxLogFileSize > 0
                /\ Bytes(headers_) < kMaxLogFileSize)
               => Bytes(content'[logger_']) < kMaxLogFileSize
          /\ (Leaves(t) /\ kMaxLogFileSize > 0 /\ kLogFileTimeToRoll = 0
                /\ logger_ # NULL /\ logger_ \notin noSize)
               => /\ RollAttempt(t) <=> Bytes(content[logger_]) >= kMaxLogFileSize
                  /\ Len(content') <= Len(content) + 1
      ]_vars

\* a roll for size has left a new file holding one small header only
C3_Witness ==
    /\ kMaxLogFileSize > 0 /\ kLogFileTimeToRoll = 0
    /\ \E t \in Threads : pc[t] = "lv_write" /\ logger[t] = logger_
    /\ logger_ # NULL
    /\ headers_ # <<>>
    /\ content[logger_] = headers_
    /\ Bytes(headers_) < kMaxLogFileSize
    /\ Cardinality(Archived(dir)) >= 1

\* every thread but t is outside the sink
Alone(t) == \A u \in Threads \ {t} : pc[u] = "idle"

\* C4: size threshold S > 0, age threshold 0, one thread: a Log call rolls
\* exactly when it finds the current file's size >= S (size = S included),
\* and rolls before its message is written: when the rename and the reopen
\* succeed, the archived file is the old file with exactly what it held
\* before the call, the new file holds the headers only, the triggering
\* message is in no file yet and is then written to the new file.
C4_RollBeforeTriggeringWrite ==
    [][ \A t \in Threads :
          /\ (Leaves(t) /\ Alone(t) /\ kMaxLogFileSize > 0
                /\ kLogFileTimeToRoll = 0 /\ status_ = "OK")
               => /\ RollAttempt(t) <=> Bytes(content[logger_]) >= kMaxLogFileSize
                  /\ NoRoll(t) => (logger'[t] = logger_ /\ dir' = dir
                                    /\ content' = content)
                  /\ (RollAttempt(t) /\ faults' = faults)
                       => /\ RollSuccess(t)
                          /\ \E e \in Archived(dir') \ Archived(dir) :
                                e.file = logger_
                          /\ Archived(dir) \subseteq Archived(dir')
                          /\ content'[logger_] = content[logger_]
                          /\ \A i \in DOMAIN content[logger_] :
                                content[logger_][i] # text[t]
                          /\ FileAt(dir', log_fname_) = logger_'
                          /\ content'[logger_'] = headers_
                          /\ logger'[t] = logger_'
          /\ (pc[t] = "lv_write" /\ pc'[t] = "idle")
               => content' = [content EXCEPT ![logger[t]] = Append(@, text[t])]
      ]_vars

\* a lone thread rolled at size = S: the archived file holds the two
\* messages written before, the new file the third
C4_Witness ==
    /\ kMaxLogFileSize > 0 /\ kLogFileTimeToRoll = 0
    /\ \A t \in Threads : pc[t] = "idle"
    /\ logger_ # NULL /\ status_ = "OK"
    /\ Len(content[logger_]) = 1 /\ content[logger_][1].kind = "M"
    /\ \E e \in Archived(dir) :
          /\ Bytes(content[e.file]) = kMaxLogFileSize
          /\ \A i \in DOMAIN content[e.file] : content[e.file][i].kind = "M"

\* the real clock has passed the end of the current file epoch
ClockPassed == NowSeconds(now) >= ctime_ + kLogFileTimeToRoll

\* C5 as stated: with an age threshold, the first Log call of an epoch
\* (no LogExpired evaluation since the epoch began) that comes after the
\* clock has passed epoch start + T rolls.
C5_AsStated ==
    [][ \A t \in Threads :
          (Leaves(t) /\ kLogFileTimeToRoll > 0 /\ status_ = "OK"
             /\ cached_now_access_count = 0 /\ ClockPassed)
            => RollAttempt(t)
      ]_vars

\* C5, amended: the clock is read once the N = call_NowMicros_every_N_records_
\* evaluations after the epoch began are used up. The first N Log calls of
\* the epoch see the cached clock of the epoch start and do not roll for
\* age, even when the clock has passed epoch start + T; the call that finds
\* the counter at N re-reads the clock and, the clock having passed, rolls
\* once, before its own message is written.
C5_RollAfterRefresh ==
    [][ \A t \in Threads :
          (Leaves(t) /\ kLogFileTimeToRoll > 0 /\ status_ = "OK")
            => /\ (cached_now_access_count < call_NowMicros_every_N_records_
                     /\ cached_now = ctime_
                     /\ ~(kMaxLogFileSize > 0
                            /\ Bytes(content[logger_]) >= kMaxLogFileSize))
                    => NoRoll(t)
               /\ (cached_now_access_count = call_NowMicros_every_N_records_
                     /\ ClockPassed)
                    => /\ RollAttempt(t)
                       /\ Len(content') <= Len(content) + 1
                       /\ \A f \in DOMAIN content : content'[f] = content[f]
                       /\ RollSuccess(t) => logger'[t] = logger_'
      ]_vars

\* the call after N stale ones has rolled for age and is about to write
C5_Witness ==
    /\ kLogFileTimeToRoll > 0 /\ kMaxLogFileSize = 0
    /\ \E t \in Threads : pc[t] = "lv_write" /\ logger[t] = logger_
    /\ status_ = "OK"
    /\ ctime_ = NowSeconds(now) /\ ctime_ > 0
    /\ cached_now_access_count = 0
    /\ Cardinality(Archived(dir)) = 1
    /\ calls = call_NowMicros_every_N_records_ + 1

\* C6: a roll never renames the active file onto an archived path that
\* exists: every archived file is still there after the roll, and a rename
\* that succeeds adds one archived name, bound to the old active file.
C6_RollNeverOverwritesArchive ==
    [][ \A t \in Threads :
          RollAttempt(t)
            => /\ Archived(dir) \subseteq Archived(dir')
               /\ (FileExists(dir, log_fname_) /\ faults' = faults)
                    => /\ Cardinality(Archived(dir')) = Cardinality(Archived(dir)) + 1
                       /\ \E e \in Archived(dir') \ Archived(dir) :
                             e.file = FileAt(dir, log_fname_)
      ]_vars

\* two rolls at one clock reading have left two archived files
C6_Witness ==
    /\ now = 9
    /\ \A e \in Archived(dir) : content[e.file] # ArchivedContent
    /\ FileExists(dir, OldInfoLogFileName(LogPath, 9))
    /\ FileExists(dir, OldInfoLogFileName(LogPath, 10))
    /\ FileAt(dir, OldInfoLogFileName(LogPath, 9))
         # FileAt(dir, OldInfoLogFileName(LogPath, 10))

\* thread t takes a step of a Log call in this step
LogStep(t) ==
    \/ pc'[t] # pc[t] /\ (text[t].kind = "M" \/ text'[t].kind = "M")
    \/ /\ crashed' # crashed
       /\ text[t].kind = "M"
       /\ pc[t] = "lv_locked" \/ (pc[t] = "lv_write" /\ logger[t] = NULL)
    \/ crashed' # crashed /\ text[t].kind = "none" /\ text'[t].kind = "M"

\* the message of thread t's Log call in this step
LogText(t) == IF text[t].kind = "M" THEN text[t] ELSE text'[t]

\* C7 as stated: once a roll has failed to reopen the writer, every Log
\* call started later returns without writing its message and without
\* crashing the process, and the stored status stays an error.
C7_AsStated ==
    [][ \A t \in Threads :
          (sink = "live" /\ failedAt > 0 /\ status_ # "OK" /\ LogStep(t)
             /\ LogText(t).id > failedAt)
            => /\ crashed' = "no"
               /\ status_' # "OK"
               /\ \A f \in DOMAIN content' : \A i \in DOMAIN content'[f] :
                     content'[f][i] # LogText(t)
      ]_vars

\* the old active file has no archived name after the step
RenameFailed ==
    /\ FileExists(dir, log_fname_)
    /\ ~ \E e \in Archived(dir') : e.file = FileAt(dir, log_fname_)

\* no new writer was opened in the step
ReopenFailed == Len(content') = Len(content)

\* C8 as stated: when the rename or the reopen of a roll fails, the stored
\* status is an error after the roll and the Log call does not crash.
C8_AsStated ==
    [][ \A t \in Threads :
          (RollAttempt(t) /\ (RenameFailed \/ ReopenFailed))
            => (status_' # "OK" /\ crashed' = "no")
      ]_vars

\* CreateLogger has returned from its rotating branch
RotatingCreated == ret # "none" /\ (kMaxLogFileSize > 0 \/ kLogFileTimeToRoll > 0)

\* C9: the rotating branch of CreateLogger returns the sink's initial
\* status; the caller's handle names the sink exactly when that status is
\* OK; on an error the sink is deleted and the caller's handle is as it was.
C9_SinkHandedOverOnlyWhenOK ==
    RotatingCreated
      => /\ calls = 0 => ret = status_
         /\ callerLogger.sink <=> ret = "OK"
         /\ ret = "OK" => sink = "live"
         /\ ret # "OK" => (sink = "deleted" /\ callerLogger = [sink |-> FALSE, h |-> NULL])

\* the rotating branch returned an error for a writer without a size
C9_Witness ==
    /\ RotatingCreated
    /\ ret = "NotSupported"
    /\ sink = "deleted"
    /\ ~callerLogger.sink

\* C10 as stated: after a failed CreateDirIfMissing, CreateLogger does not
\* return OK.
C10_AsStated == dirStatus = "IOError" => ret # "OK"

(* ==================== properties of CreateLogger ====================== *)
\* CreateLogger returns from its threshold-less branch in this step
PlainCreated == ret = "none" /\ ret' # "none" /\ sink' = "none"

\* C11: CreateLogger with both thresholds 0 on a directory holding an active
\* LOG, the Env calls succeeding: the old file gets the archived name of the
\* clock's reading, with its content untouched; the active path names a
\* fresh, empty file, which is the plain writer handed to the caller, at the
\* requested minimum level; no rotating sink is constructed.
C11_PlainArchivesThenOpens ==
    [][ (PlainCreated /\ FileExists(dir, log_fname_) /\ faults' = faults)
          => LET old == FileAt(dir, log_fname_)
                 archive == OldInfoLogFileName(LogPath, now)
             IN  /\ FileExists(dir', archive)
                 /\ FileAt(dir', archive) = old
                 /\ content'[old] = content[old]
                 /\ ret' = "OK"
                 /\ callerLogger' = [sink |-> FALSE, h |-> FileAt(dir', log_fname_)]
                 /\ callerLogger'.h \notin DOMAIN content
                 /\ content'[callerLogger'.h] = <<>>
                 /\ level' \in LogLevels
                 /\ sink' = "none" /\ logger_' = NULL
                 /\ kMaxLogFileSize' = 0 /\ kLogFileTimeToRoll' = 0
      ]_vars

\* the plain branch has archived the old LOG and opened a new one
C11_Witness ==
    /\ ret = "OK" /\ sink = "none"
    /\ ~callerLogger.sink /\ callerLogger.h # NULL
    /\ FileExists(dir, log_fname_) /\ FileAt(dir, log_fname_) = callerLogger.h
    /\ content[callerLogger.h] = <<>>
    /\ level \in LogLevels
    /\ \E e \in Archived(dir) : e.file = 1 /\ content[1] = OldContent

(* ======================= properties of ResetLogger ===================== *)
\* ResetLogger runs in this step: in the constructor or in a roll
ResetLoggerRuns ==
    \/ sink = "none" /\ sink' # "none"
    \/ \E t \in Threads : RollAttempt(t)

\* NewLogger opened a writer in this step
OpenSucceeded == Len(content') = Len(content) + 1

\* C12 as stated: ResetLogger returns (and stores) NotSupported exactly when
\* the open succeeded, the opened writer cannot report its size and the size
\* threshold is greater than 0; a failed open is returned as its own error.
C12_AsStated ==
    [][ ResetLoggerRuns
          => /\ status_' = "NotSupported"
                  <=> /\ OpenSucceeded
                      /\ Len(content') \in noSize'
                      /\ kMaxLogFileSize' > 0
             /\ ~OpenSucceeded => status_' = "IOError"
      ]_vars

(* ========================= properties of mutex_ ======================== *)
\* the threads inside a critical section (lines 84-99 and 126-131)
InCritical == {t \in Threads : pc[t] \in {"lv_locked", "lh_locked"}}

\* thread t takes the step of its critical section in this step
CriticalStep(t) ==
    /\ t \in mutex_
    /\ pc[t] \in {"lv_locked", "lh_locked"}
    /\ pc'[t] # pc[t] \/ crashed' # crashed

\* C13: on a constructed sink the threads inside a critical section are the
\* holders of mutex_, and there is at most one, so at most one roll is in
\* progress; the write of Log (line 107) runs without the mutex. Every
\* replacement of logger_, every change of the roll bookkeeping, every append
\* to headers_ and every pin of logger_ for dispatch is a step of the thread
\* holding mutex_.
C13_SerializedByMutex ==
    /\ [](/\ Cardinality(mutex_) <= 1
          /\ InCritical = mutex_
          /\ \A t \in Threads : pc[t] = "lv_write" => t \notin mutex_)
    /\ [][ sink = "live"
            => /\ (\/ logger_' # logger_
                   \/ headers_' # headers_
                   \/ <<cached_now, ctime_, cached_now_access_count, status_>>'
                        # <<cached_now, ctime_, cached_now_access_count, status_>>
                   \/ dir' # dir)
                  => \E t \in Threads : CriticalStep(t)
               /\ \A t \in Threads :
                    (pc[t] # "lv_write" /\ pc'[t] = "lv_write")
                       => (CriticalStep(t) /\ logger'[t] = logger_')
               /\ \A t \in Threads :
                    (pc[t] = "lv_write" /\ pc'[t] = "idle")
                       => (mutex_' = mutex_ /\ logger_' = logger_ /\ headers_' = headers_)
         ]_vars

\* one thread writes outside the mutex while another is in its critical
\* section, after a roll
C13_Witness ==
    \E t, u \in Threads :
       /\ pc[t] = "lv_write"
       /\ pc[u] \in {"lv_locked", "lh_locked"}
       /\ mutex_ = {u}
       /\ Cardinality(Archived(dir)) >= 1
       /\ logger[t] = logger_

(* ======================= properties of LogExpired ====================== *)
\* C14: with an age threshold, LogExpired re-reads the clock only when it
\* finds the count at N = call_NowMicros_every_N_records_, and then restarts
\* the count at 1, so two readings are N evaluations apart and the count
\* never exceeds N. A Log call that pins the writer of a file whose epoch
\* the clock has already outrun finds the count below N and adds one to it;
\* the call that finds the count at N rolls. Hence at most N Log calls pin
\* the writer of an expired file before a Log call rolls.
C14_StalenessBoundedByN ==
    /\ [](kLogFileTimeToRoll > 0
            => cached_now_access_count <= call_NowMicros_every_N_records_)
    /\ [][ \A t \in Threads :
             (Leaves(t) /\ kLogFileTimeToRoll > 0 /\ status_ = "OK")
               => /\ NoRoll(t)
                    => \/ /\ cached_now_access_count < call_NowMicros_every_N_records_
                          /\ cached_now_access_count' = cached_now_access_count + 1
                          /\ cached_now' = cached_now
                       \/ /\ cached_now_access_count = call_NowMicros_every_N_records_
                          /\ cached_now_access_count' = 1
                          /\ cached_now' = NowSeconds(now)
                          /\ ~ClockPassed
                  /\ (NoRoll(t) /\ ClockPassed)
                    => cached_now_access_count < call_NowMicros_every_N_records_
                  /\ (cached_now_access_count = call_NowMicros_every_N_records_
                        /\ ClockPassed)
                    => RollAttempt(t)
         ]_vars

\* N Log calls have pinned the writer of a file whose epoch the clock has
\* outrun; the next one will re-read the clock
C14_Witness ==
    /\ kLogFileTimeToRoll > 0 /\ status_ = "OK" /\ sink = "live"
    /\ ClockPassed
    /\ cached_now < ctime_ + kLogFileTimeToRoll
    /\ cached_now_access_count = call_NowMicros_every_N_records_
    /\ FileAt(dir, log_fname_) = logger_
    /\ Len(content[logger_]) = call_NowMicros_every_N_records_
    /\ \A i \in DOMAIN content[logger_] : content[logger_][i].kind = "M"

(* ==================== properties of the archived names ================= *)
RECURSIVE Number(_)
\* the number a sequence of decimal digits denotes
Number(digits) ==
    IF digits = <<>> THEN 0
    ELSE 10 * Number(SubSeq(digits, 1, Len(digits) - 1)) + digits[Len(digits)]

\* the timestamp in the name of an archived file
ArchivedTimestamp(name) == Number(name[3])

\* what the claim asks of a step that archives the active file: the new
\* archived name carries a timestamp above all those in the directory, and
\* every archived file is still there under its name
ArchivesAbove ==
    /\ \A e \in Archived(dir') \ Archived(dir) : \A o \in Archived(dir) :
          ArchivedTimestamp(e.name) > ArchivedTimestamp(o.name)
    /\ Archived(dir) \subseteq Archived(dir')

\* C15 as stated: every archival rename, by RollLogFile or by the
\* threshold-less branch of CreateLogger, uses a timestamp strictly greater
\* than that of every archived file of the directory, and so never targets
\* an archived file that exists.
C15_AsStated ==
    [][ (PlainCreated \/ \E t \in Threads : RollAttempt(t)) => ArchivesAbove ]_vars

(* ========================= properties of Logv ========================== *)
\* thread t's Log call returns from inside the critical section in this
\* step: ResetLogger failed in its roll (line 91)
RollFailure(t) == pc[t] = "lv_locked" /\ pc'[t] = "idle"

\* C16: a Log call whose roll fails to reinitialize is abandoned: no file
\* gets a header or the message (a writer the failed ResetLogger did open
\* stays empty), the call pins no writer, gives the mutex back and returns
\* without a crash, with an error stored; ctime_ is as before and
\* cached_now_access_count is what the roll decision (LogExpired, when the
\* age trigger is on) left.
C16_FailedRollAbandonsCall ==
    [][ \A t \in Threads :
          RollFailure(t)
            => /\ status_' # "OK"
               /\ \A f \in DOMAIN content : content'[f] = content[f]
               /\ \A f \in DOMAIN content' \ DOMAIN content : content'[f] = <<>>
               /\ logger'[t] = NULL /\ text'[t] = NoText
               /\ mutex_ = {t} /\ mutex_' = {}
               /\ crashed' = "no"
               /\ ctime_' = ctime_
               /\ cached_now_access_count'
                    = IF kLogFileTimeToRoll > 0
                      THEN AccessCountAfter(cached_now_access_count)
                      ELSE cached_now_access_count
               /\ headers_' = headers_
      ]_vars

\* a roll for size, a second after the epoch began and with a header
\* retained, has failed: the sink holds its error, the mutex is free and the
\* epoch is the old one
C16_Witness ==
    /\ sink = "live" /\ failedAt > 0 /\ status_ # "OK"
    /\ mutex_ = {}
    /\ \A t \in Threads : pc[t] = "idle"
    /\ headers_ # <<>>
    /\ ctime_ < NowSeconds(now)

\* C17 as stated: a threshold of 0 disables its trigger, and with the age
\* threshold 0 a Log call never evaluates LogExpired and so leaves cached_now
\* and cached_now_access_count unchanged.
C17_AsStated ==
    [][ \A t \in Threads :
          Leaves(t)
            => /\ kMaxLogFileSize = 0
                    => (RollAttempt(t)
                          => AgeTrigger(kLogFileTimeToRoll, cached_now,
                                        cached_now_access_count, ctime_, now))
               /\ kLogFileTimeToRoll = 0
                    => /\ RollAttempt(t)
                            => SizeTrigger(kMaxLogFileSize, GetLogFileSize(logger_))
                       /\ cached_now' = cached_now
                       /\ cached_now_access_count' = cached_now_access_count
      ]_vars

\* C17, amended: with size threshold 0 a Log call rolls exactly when the age
\* trigger fires, whatever the file's size; with age threshold 0 it rolls
\* exactly when the size trigger fires, whatever the clock reads, LogExpired
\* is not evaluated and the access counter stays as it is; cached_now is left
\* unchanged by every Log call that does not complete a roll, and a
\* completed roll (for size) sets it to the clock's reading in ResetLogger.
C17_ZeroDisablesTrigger ==
    [][ \A t \in Threads :
          Leaves(t)
            => /\ kMaxLogFileSize = 0
                    => (RollAttempt(t)
                          <=> AgeTrigger(kLogFileTimeToRoll, cached_now,
                                         cached_now_access_count, ctime_, now))
               /\ kLogFileTimeToRoll = 0
                    => /\ RollAttempt(t)
                            <=> SizeTrigger(kMaxLogFileSize, GetLogFileSize(logger_))
                       /\ cached_now_access_count' = cached_now_access_count
                       /\ cached_now_access_count = 0
                       /\ ~RollSuccess(t) => cached_now' = cached_now
                       /\ RollSuccess(t) => cached_now' = NowSeconds(now)
      ]_vars

\* with the age threshold 0, Log calls have written to the first file while
\* the clock went a second past its epoch; with the size threshold 0, a Log
\* call has written to a file that already held a header of 1023 bytes or
\* more
C17_Witness ==
    /\ sink = "live" /\ status_ = "OK"
    /\ FileAt(dir, log_fname_) = logger_
    /\ Len(content[logger_]) >= 2
    /\ content[logger_][Len(content[logger_])].kind = "M"
    /\ \/ /\ kLogFileTimeToRoll = 0
          /\ NowSeconds(now) > ctime_
          /\ cached_now = ctime_ /\ cached_now_access_count = 0
          /\ \A t \in Threads : pc[t] = "idle"
       \/ /\ kMaxLogFileSize = 0
          /\ content[logger_][1].kind = "H"
          /\ content[logger_][1].len >= MAXBUFFERSIZE - 1

(* ========================= termination of calls ======================== *)
\* fair scheduling: a thread that can take a step of its call takes it, and
\* a thread waiting for mutex_ gets it if it is free again and again
Fairness ==
    \A t \in Threads :
       /\ SF_vars(LogvLock(t))
       /\ SF_vars(LogHeaderLock(t))
       /\ WF_vars(LogvBody(t))
       /\ WF_vars(LogvWrite(t))
       /\ WF_vars(LogHeaderBody(t))

FairSpec == Spec /\ Fairness

\* thread t has a Log or LogHeader call that has not returned
InCall(t) == text[t] # NoText

\* C18 as stated: mutex_ has at most one holder, it is held only by a thread
\* inside a call (it is given back on every exit path), and every call
\* returns: no call is left in a process that has died, from where it can
\* never return.
C18_AsStated ==
    /\ Cardinality(mutex_) <= 1
    /\ \A t \in mutex_ : InCall(t)
    /\ \A t \in Threads : InCall(t) => crashed = "no"

(* ===================== the message of a Log call ====================== *)
\* what the pin and the write of a Log call do with its message: the call
\* leaves the critical section holding the handle then current, keeps handle
\* and text until its write, and the write appends the text, found in no
\* file before, to the file of that handle and to no other
WritesOnceToPinned(t) ==
    /\ (Leaves(t) /\ ~RollFailure(t))
         => (logger'[t] = logger_' /\ text'[t] = text[t])
    /\ (pc[t] = "lv_write" /\ pc'[t] = "lv_write")
         => (logger'[t] = logger[t] /\ text'[t] = text[t])
    /\ (pc[t] = "lv_write" /\ pc'[t] = "idle")
         => /\ content' = [content EXCEPT ![logger[t]] = Append(@, text[t])]
            /\ \A f \in DOMAIN content : \A i \in DOMAIN content[f] :
                  content[f][i] # text[t]
    /\ \A f \in DOMAIN content : IsPrefix(content[f], content'[f])

\* C19: a Log call writes its message exactly once, to the handle that was
\* current when it left the critical section, also when a roll has replaced
\* logger_ before the write (WritesOnceToPinned); on a sink in good standing
\* that handle is an open writer; and as long as no reinitialization has
\* failed on the sink no Log call ends with its message unwritten in a
\* process that has died.
C19_MessageWrittenOnce ==
    [][ \A t \in Threads :
          /\ WritesOnceToPinned(t)
          /\ (Leaves(t) /\ ~RollFailure(t) /\ status_' = "OK")
               => (logger'[t] # NULL /\ logger'[t] \notin closed')
          /\ (text'[t].kind = "M" /\ failedAt' = 0) => crashed' = "no"
      ]_vars

\* a Log call has pinned a writer and not yet written, while a roll has
\* replaced the writer and a later Log call has written to the new file
C19_Witness ==
    \E t \in Threads :
       /\ pc[t] = "lv_write" /\ failedAt = 0
       /\ logger_ # NULL
       /\ logger[t] \notin {NULL, logger_} \cup closed
       /\ \E i \in DOMAIN content[logger_] :
             /\ content[logger_][i].kind = "M"
             /\ content[logger_][i].id > text[t].id

(* ========================= properties of headers_ ====================== *)
\* the positions at which a sequence of texts holds the header of call id
HeaderAt(q, id) == {i \in DOMAIN q : q[i].kind = "H" /\ q[i].id = id}

\* the calls whose headers are in a sequence of texts
HeaderIds(q) == {q[i].id : i \in {j \in DOMAIN q : q[j].kind = "H"}}

\* C20: headers_ only grows, and only in the critical section of LogHeader,
\* which appends the call's string to headers_ and writes the call's text
\* once to the file then current, in one step under the mutex; a successful
\* roll leaves in the new file each retained header once, in order. So no
\* file holds the header of one call twice, and the current file of a sink
\* in good standing holds every retained header.
C20_HeadersOncePerFile ==
    /\ [](/\ \A f \in DOMAIN content : \A id \in HeaderIds(content[f]) :
                Cardinality(HeaderAt(content[f], id)) = 1
          /\ \A id \in HeaderIds(headers_) : Cardinality(HeaderAt(headers_, id)) = 1
          /\ (sink = "live" /\ status_ = "OK")
                => HeaderIds(headers_) \subseteq HeaderIds(content[logger_]))
    /\ [][ /\ IsPrefix(headers_, headers_')
           /\ headers_' # headers_ => \E t \in Threads : pc[t] = "lh_locked"
           /\ \A t \in Threads :
                /\ (pc[t] = "lh_locked" /\ pc'[t] = "idle")
                     => /\ mutex_ = {t}
                        /\ headers_' = Append(headers_, ValistToString(text[t]))
                        /\ content' = [content EXCEPT ![logger_] = Append(@, text[t])]
                /\ RollSuccess(t) => content'[logger_'] = headers_
         ]_vars

\* a header retained before two successful rolls is, once each, in the file
\* it was written to and in the two files the rolls opened
C20_Witness ==
    /\ sink = "live" /\ status_ = "OK"
    /\ \E id \in HeaderIds(headers_) :
          /\ Cardinality({f \in DOMAIN content : id \in HeaderIds(content[f])}) >= 3
          /\ \A f \in DOMAIN content :
                id \in HeaderIds(content[f]) => Cardinality(HeaderAt(content[f], id)) = 1
    /\ Len(content[logger_]) > Len(headers_)
====
